---- MODULE Spec2Model ----
(***************************************************************************)
(* The authentication and user-administration core of rest-api-server:     *)
(* the in-memory User store (models/User.js), the auth routes              *)
(* (routes/auth.js) and the users routes (routes/users.js).                *)
(*                                                                         *)
(* A handler is an async function.  Node runs the code between two awaits  *)
(* in one turn of its event loop, without interruption, so a handler is    *)
(* one action per turn that touches the store; a handler with a single     *)
(* store call is a single action.  The response of a handler is fixed by   *)
(* the turn that made its last store call, and is recorded there: `last`   *)
(* is the response written in the turn in progress, and EndTurn ends it.   *)
(***************************************************************************)
EXTENDS Integers, Sequences, FiniteSets, TLC

\* Bounds of the model.
MaxId == 3          \* ids handed out are 2..MaxId
MaxTime == 1        \* the clock runs 0..MaxTime
TokenTTL == 1       \* a token's time to live, in ticks of the clock

\* Handlers that can be in flight at once (Register, UpdateUser).
Slots == {"s1", "s2"}

\* JavaScript's undefined (an absent body field), and truthiness of a
\* string-or-undefined value as `if (username)` tests it.
undefined == "undefined"
Truthy(v) == v # undefined /\ v # ""

\* --------------------------------------------------------------- inputs
\* A path segment and a query value are strings, held as sequences of
\* characters so that parseInt can be computed.
SegStats == <<"s", "t", "a", "t", "s">>
Segments == {<<"1">>, <<"2">>, <<"3", "x">>, SegStats}
\* The query of a GET /: [page, limit], <<>> for a value the request lacks.
Query(page, limit) == [page |-> page, limit |-> limit]
NoQuery == Query(<<>>, <<>>)
Queries ==
    {NoQuery, Query(<<"0">>, <<>>), Query(<<"2">>, <<"1">>), Query(<<"2">>, <<"2">>),
     Query(<<"-", "1">>, <<"1">>), Query(<<"1">>, <<"-", "1">>)}

AdminEmail == "admin@example.com"
RegisterBodies ==
    {[username |-> "alice", email |-> "alice@x.com", password |-> "Secret123"],
     [username |-> "bob", email |-> "bob@x.com", password |-> "Secret123"],
     [username |-> "bob", email |-> "alice@x.com", password |-> "Secret123"],
     [username |-> "ab", email |-> "bob@x.com", password |-> "Secret123"]}
LoginBodies ==
    [email : {AdminEmail, "alice@x.com", "bob@x.com"},
     password : {"password123", "Secret123", "NewPass456"}]
UpdateBodies ==
    {[username |-> "bob", email |-> undefined, password |-> undefined],
     [username |-> undefined, email |-> "bob@x.com", password |-> "NewPass456"],
     [username |-> undefined, email |-> undefined, password |-> undefined],
     [username |-> "ab", email |-> undefined, password |-> undefined]}
\* The patch of the interleaved handlers: it passes every await of PUT /:id.
RaceUpdateBodies ==
    {[username |-> "bob", email |-> "bob@x.com", password |-> "NewPass456"]}
\* The salts bcrypt can draw.
Salts == {"salt"}

VARIABLES
    users,        \* models/User.js `users`: the records, in insertion order
    nextUserId,   \* models/User.js `nextUserId`
    tokens,       \* the token payloads this service has signed
    now,          \* the clock
    slot,         \* the Register / UpdateUser handlers in flight
    last          \* the request answered in this turn, with its response

vars == <<users, nextUserId, tokens, now, slot, last>>

\* ------------------------------------------------------------- parseInt
DigitValue(c) ==
    CASE c = "0" -> 0 [] c = "1" -> 1 [] c = "2" -> 2 [] c = "3" -> 3 [] c = "4" -> 4
      [] c = "5" -> 5 [] c = "6" -> 6 [] c = "7" -> 7 [] c = "8" -> 8 [] c = "9" -> 9
IsDigit(c) == c \in {"0", "1", "2", "3", "4", "5", "6", "7", "8", "9"}

\* The value of the longest prefix of digits of s, read after acc.
RECURSIVE DigitPrefix(_, _)
DigitPrefix(s, acc) ==
    IF s = <<>> \/ ~IsDigit(Head(s)) THEN acc
    ELSE DigitPrefix(Tail(s), 10 * acc + DigitValue(Head(s)))

\* parseInt(s): an optional sign, then the longest prefix of digits; NaN when
\* there is no digit.  A number is [nan, val], NaN is [nan |-> TRUE].
NaN == [nan |-> TRUE, val |-> 0]
Num(n) == [nan |-> FALSE, val |-> n]
ParseInt(s) ==
    LET neg == s # <<>> /\ Head(s) = "-"
        body == IF s # <<>> /\ Head(s) \in {"-", "+"} THEN Tail(s) ELSE s
    IN  IF body = <<>> \/ ~IsDigit(Head(body)) THEN NaN
        ELSE Num(IF neg THEN 0 - DigitPrefix(body, 0) ELSE DigitPrefix(body, 0))

\* a === b and a !== b on numbers: NaN equals nothing, itself included.
StrictEq(a, b) == ~a.nan /\ ~b.nan /\ a.val = b.val
StrictNeq(a, b) == ~StrictEq(a, b)
\* `x || d` on a number: 0 and NaN are falsy.
OrDefault(a, d) == IF a.nan \/ a.val = 0 THEN d ELSE a.val

\* ------------------------------------------------------------ the store
\* A faulty view: the record as stored.
WithPassword(user) == user

\* `const { password, ...userWithoutPassword } = user`
WithoutPassword(user) == [f \in DOMAIN user \ {"password"} |-> user[f]]

\* `{ ...a, ...b }`
Spread(a, b) == [f \in DOMAIN a \cup DOMAIN b |-> IF f \in DOMAIN b THEN b[f] ELSE a[f]]

\* users.findIndex(pred), 1-based; 0 when there is none (findIndex's -1).
FindIndex(us, P(_)) ==
    IF \E i \in DOMAIN us : P(us[i])
    THEN CHOOSE i \in DOMAIN us : P(us[i]) /\ \A j \in 1..(i - 1) : ~P(us[j])
    ELSE 0

\* users.find(pred): <<record>>, or <<>> when there is none (undefined).
Find(us, P(_)) == LET i == FindIndex(us, P) IN IF i = 0 THEN <<>> ELSE <<us[i]>>

findAll(us) == [i \in DOMAIN us |-> WithoutPassword(us[i])]

\* id is parseInt(id): the callers pass ParseInt of a path segment, or the
\* number a token carries (parseInt of a number is that number).
findById(us, id) ==
    LET ById(u) == StrictEq(Num(u.id), id)
        user == Find(us, ById)
    IN  IF user = <<>> THEN <<>> ELSE <<WithoutPassword(user[1])>>

findByEmail(us, email) == LET ByEmail(u) == u.email = email IN Find(us, ByEmail)

findByUsername(us, username) ==
    LET ByUsername(u) == u.username = username IN Find(us, ByUsername)

\* A faulty `nextUserId++`: the counter stays.
NoIncrement(n) == n

\* `nextUserId++`: the counter after it.
PostIncrement(n) == n + 1

\* A faulty User.create: the id is not taken from the counter, so that the
\* id of a deleted record is given out again.
createReusingId(userData, id, t) ==
    Spread(Spread([id |-> 2], userData), [role |-> "user", createdAt |-> t])

\* A faulty User.create: the record is pushed with role admin.
createAsAdmin(userData, id, t) ==
    Spread(Spread([id |-> id], userData), [role |-> "admin", createdAt |-> t])

\* User.create: the record pushed; its view is WithoutPassword of it.
create(userData, id, t) ==
    LET role == IF "role" \in DOMAIN userData /\ Truthy(userData.role)
                THEN userData.role ELSE "user"
    IN  Spread(Spread([id |-> id], userData), [role |-> role, createdAt |-> t])

\* User.updateById: the store after it; unchanged when no record has the id.
updateIndex(us, id) ==
    LET ById(u) == StrictEq(Num(u.id), ParseInt(id)) IN FindIndex(us, ById)
\* A faulty User.updateById: `{ ...userData, ...users[userIndex] }`, the
\* stored fields win over the patch.
updateByIdKeepingOld(us, id, userData, t) ==
    LET i == updateIndex(us, id)
    IN  IF i = 0 THEN us
        ELSE [us EXCEPT ![i] = Spread(Spread(userData, us[i]), [updatedAt |-> t])]

\* A faulty User.updateById: the patch also sets the role.
updateByIdWithRole(us, id, userData, t) ==
    LET i == updateIndex(us, id)
    IN  IF i = 0 THEN us
        ELSE [us EXCEPT ![i] = Spread(Spread(us[i], userData),
                                      [role |-> "admin", updatedAt |-> t])]

updateById(us, id, userData, t) ==
    LET i == updateIndex(us, id)
    IN  IF i = 0 THEN us
        ELSE [us EXCEPT ![i] = Spread(Spread(us[i], userData), [updatedAt |-> t])]

\* User.deleteById: the store after the splice.
deleteById(us, id) ==
    LET i == updateIndex(us, id)
    IN  IF i = 0 THEN us
        ELSE [j \in 1..(Len(us) - 1) |-> IF j < i THEN us[j] ELSE us[j + 1]]

\* User.getUserStats
CountRole(us, role) == Cardinality({i \in DOMAIN us : us[i].role = role})
getUserStats(us) ==
    [totalUsers |-> Len(us), adminUsers |-> CountRole(us, "admin"),
     regularUsers |-> CountRole(us, "user")]

\* bcrypt.hash(plain, saltRounds) with the salt it drew, and bcrypt.compare.
SaltRounds == 10
Hash(plain, salt) == [plain |-> plain, rounds |-> SaltRounds, salt |-> salt]
\* A faulty bcrypt.compare: every password matches.
CompareAny(plain, hash) == TRUE
Compare(plain, hash) == hash.plain = plain

SeedAdmin ==
    [id |-> 1, username |-> "admin", email |-> AdminEmail,
     password |-> Hash("password123", "seed"), role |-> "admin", createdAt |-> 0]

\* ------------------------------------------------------------- the guard
\* jwt.sign(payload, JWT_SECRET, {expiresIn}): the payload signed at time t.
JWT_SECRET == "JWT_SECRET"
Sign(user, t) ==
    [userId |-> user.id, username |-> user.username, role |-> user.role,
     iat |-> t, exp |-> t + TokenTTL]

\* The Authorization headers a client can send: none, a token this service
\* signed, or a payload signed with another key.
ForgedPayload ==
    [userId |-> 2, username |-> "alice", role |-> "admin", iat |-> 0, exp |-> TokenTTL]
Headers ==
    {<<>>} \cup {<<[payload |-> p, key |-> JWT_SECRET]>> : p \in tokens}
           \cup {<<[payload |-> ForgedPayload, key |-> "another key"]>>}

\* middleware/auth.js: the verified claims, or the 401 it answers.
authenticateToken(header, t) ==
    IF header = <<>>
    THEN [ok |-> FALSE, message |-> "Authentication required", user |-> <<>>]
    ELSE IF header[1].key # JWT_SECRET
    THEN [ok |-> FALSE, message |-> "Invalid token", user |-> <<>>]
    ELSE IF t >= header[1].payload.exp
    THEN [ok |-> FALSE, message |-> "Token expired", user |-> <<>>]
    ELSE [ok |-> TRUE, message |-> "", user |-> <<header[1].payload>>]

\* What jwt.verify throws, as the error handler sees it (statusCode 0: the
\* error has none).
JwtErrors ==
    {[name |-> "JsonWebTokenError", statusCode |-> 0, message |-> "invalid signature"],
     [name |-> "TokenExpiredError", statusCode |-> 0, message |-> "jwt expired"]}

\* A faulty error handler: the two JWT errors are taken for one another.
errorHandlerSwapped(err) ==
    [status |-> 401,
     body |-> [error |-> IF err.name = "TokenExpiredError" THEN "Invalid token"
                         ELSE "Token expired"]]

\* middleware/errorHandler.js: the tests run in turn, a later one
\* overwriting what an earlier one set.
errorHandler(err) ==
    LET default == [statusCode |-> 500, message |-> "Internal Server Error"]
        validation == IF err.name = "ValidationError"
                      THEN [statusCode |-> 400, message |-> "Validation Error"]
                      ELSE default
        invalid == IF err.name = "JsonWebTokenError"
                   THEN [statusCode |-> 401, message |-> "Invalid token"]
                   ELSE validation
        expired == IF err.name = "TokenExpiredError"
                   THEN [statusCode |-> 401, message |-> "Token expired"]
                   ELSE invalid
        custom == IF err.statusCode # 0
                  THEN [statusCode |-> err.statusCode, message |-> err.message]
                  ELSE expired
    IN  [status |-> custom.statusCode, body |-> [error |-> custom.message]]

\* ----------------------------------------------------------- validation
\* middleware/validation.js.  The length of the strings the model sends.
StrLen(s) ==
    CASE s = "ab" -> 2 [] s = "bob" -> 3 [] s = "alice" -> 5 [] s = "admin" -> 5
      [] s = "Secret123" -> 9 [] s = "NewPass456" -> 10 [] s = "password123" -> 11
      [] OTHER -> 0
UsernameMinLength == 3
UsernameMaxLength == 30
PasswordMinLength == 6
IsEmail(s) == s \in {AdminEmail, "alice@x.com", "bob@x.com"}
ValidUsername(s) == StrLen(s) >= UsernameMinLength /\ StrLen(s) <= UsernameMaxLength
ValidPassword(s) == StrLen(s) >= PasswordMinLength
validateRegister(body) ==
    ValidUsername(body.username) /\ IsEmail(body.email) /\ ValidPassword(body.password)
validateLogin(body) == IsEmail(body.email) /\ body.password # undefined /\ body.password # ""
validateUserUpdate(body) ==
    /\ body.username # undefined => ValidUsername(body.username)
    /\ body.email # undefined => IsEmail(body.email)
    /\ body.password # undefined => ValidPassword(body.password)

\* -------------------------------------------------------------- routing
\* The users router's routes in the order routes/users.js registers them.
\* A request path is "/" (segment <<>>) or "/<segment>".
UserRoutes ==
    << [method |-> "GET", path |-> "/", handler |-> "listUsers"],
       [method |-> "GET", path |-> "/:id", handler |-> "getUserById"],
       [method |-> "PUT", path |-> "/:id", handler |-> "updateUser"],
       [method |-> "DELETE", path |-> "/:id", handler |-> "deleteUser"],
       [method |-> "GET", path |-> "/stats", handler |-> "getUserStats"] >>

Matches(route, method, seg) ==
    /\ route.method = method
    /\ CASE route.path = "/" -> seg = <<>>
         [] route.path = "/:id" -> seg # <<>>
         [] route.path = "/stats" -> seg = SegStats

\* Express runs the first route that matches; server.js answers 404 when none does.
Dispatch(method, seg) ==
    LET hit(r) == Matches(r, method, seg)
        i == FindIndex(UserRoutes, hit)
    IN  IF i = 0 THEN "notFound" ELSE UserRoutes[i].handler

\* ------------------------------------------------------------- handlers
Reply(status, body) == [status |-> status, body |-> body]
Error(status, error, message) == Reply(status, [error |-> error, message |-> message])

\* Array.prototype.slice(start, end) on a sequence (0-based, end excluded,
\* a negative index counts from the end).
Relative(n, len) == IF n < 0 THEN (IF len + n < 0 THEN 0 ELSE len + n)
                    ELSE (IF n > len THEN len ELSE n)
Slice(seq, start, end) ==
    SubSeq(seq, Relative(start, Len(seq)) + 1, Relative(end, Len(seq)))

\* Math.ceil(n / d) for n >= 0 and d # 0.
CeilDiv(n, d) == IF d > 0 THEN (n + d - 1) \div d ELSE 0 - (n \div (0 - d))

DefaultPage == 1
DefaultLimit == 10

\* A faulty GET /: the page is served whatever the role.
listUsersUnguarded(user, pageQuery, limitQuery, us) ==
    LET all == findAll(us)
    IN  Reply(200, [users |-> all,
                    pagination |-> [page |-> DefaultPage, limit |-> DefaultLimit,
                                    total |-> Len(all),
                                    totalPages |-> CeilDiv(Len(all), DefaultLimit)]])

\* GET / of the users router
listUsers(user, pageQuery, limitQuery, us) ==
    IF user.role # "admin" THEN Error(403, "Forbidden", "Admin access required")
    ELSE LET page == OrDefault(ParseInt(pageQuery), DefaultPage)
             limit == OrDefault(ParseInt(limitQuery), DefaultLimit)
             all == findAll(us)
             startIndex == (page - 1) * limit
             endIndex == page * limit
         IN  Reply(200, [users |-> Slice(all, startIndex, endIndex),
                         pagination |-> [page |-> page, limit |-> limit,
                                         total |-> Len(all),
                                         totalPages |-> CeilDiv(Len(all), limit)]])

\* A faulty ownership test: nobody is turned away.
NobodyTurnedAway(user, id) == FALSE

\* The test `req.user.role !== 'admin' && req.user.userId !== parseInt(id)`
NotAdminNorOwner(user, id) ==
    user.role # "admin" /\ StrictNeq(Num(user.userId), ParseInt(id))

\* A faulty GET /:id: the lookup comes before the ownership test.
getUserByIdLookupFirst(user, id, us) ==
    LET found == findById(us, ParseInt(id))
    IN  IF found = <<>>
        THEN Error(404, "User not found", "User with the specified ID does not exist")
        ELSE IF NotAdminNorOwner(user, id)
        THEN Error(403, "Forbidden", "You can only access your own profile")
        ELSE Reply(200, found[1])

\* GET /:id
getUserById(user, id, us) ==
    IF NotAdminNorOwner(user, id)
    THEN Error(403, "Forbidden", "You can only access your own profile")
    ELSE LET found == findById(us, ParseInt(id))
         IN  IF found = <<>>
             THEN Error(404, "User not found", "User with the specified ID does not exist")
             ELSE Reply(200, found[1])

\* GET /stats
getStats(user, us) ==
    IF user.role # "admin" THEN Error(403, "Forbidden", "Admin access required")
    ELSE Reply(200, getUserStats(us))

\* A faulty DELETE /:id: an admin may delete their own account.
deleteUserReplyNoSelfTest(user, id, us) ==
    IF user.role # "admin"
    THEN Error(403, "Forbidden", "Admin access required to delete users")
    ELSE IF updateIndex(us, id) = 0
    THEN Error(404, "User not found", "User with the specified ID does not exist")
    ELSE Reply(200, [message |-> "User deleted successfully"])

\* DELETE /:id: the answer, and the store after it
deleteUserReply(user, id, us) ==
    IF user.role # "admin"
    THEN Error(403, "Forbidden", "Admin access required to delete users")
    ELSE IF StrictEq(Num(user.userId), ParseInt(id))
    THEN Error(400, "Invalid operation", "You cannot delete your own account")
    ELSE IF updateIndex(us, id) = 0
    THEN Error(404, "User not found", "User with the specified ID does not exist")
    ELSE Reply(200, [message |-> "User deleted successfully"])
deleteUserStore(user, id, us) ==
    IF deleteUserReply(user, id, us).status = 200 THEN deleteById(us, id) ELSE us

\* GET /me of the auth router
getProfile(user, us) ==
    LET found == findById(us, Num(user.userId))
    IN  IF found = <<>> THEN Error(404, "User not found", "User profile not found")
        ELSE Reply(200, found[1])

\* A faulty POST /login: a wrong password is told apart from an unknown email.
loginReplyTelling(body, us, t) ==
    LET found == findByEmail(us, body.email)
    IN  IF found = <<>>
        THEN Error(401, "Invalid credentials", "Invalid email or password")
        ELSE IF ~Compare(body.password, found[1].password)
        THEN Error(401, "Invalid credentials", "Wrong password")
        ELSE Reply(200, [message |-> "Login successful", token |-> Sign(found[1], t),
                         user |-> WithoutPassword(found[1])])

\* POST /login: the record found and the answer
loginReply(body, us, t) ==
    LET found == findByEmail(us, body.email)
    IN  IF found = <<>>
        THEN Error(401, "Invalid credentials", "Invalid email or password")
        ELSE IF ~Compare(body.password, found[1].password)
        THEN Error(401, "Invalid credentials", "Invalid email or password")
        ELSE Reply(200, [message |-> "Login successful", token |-> Sign(found[1], t),
                         user |-> WithoutPassword(found[1])])

\* handleValidation's answer to a body that fails its rules
ValidationFailed == Error(400, "Validation failed", "Invalid input data")
\* the guard's answer
Unauthorized(auth) == Error(401, "Unauthorized", auth.message)

\* ---------------------------------------------------------------- state
EmptyBody == [username |-> undefined, email |-> undefined, password |-> undefined]
Req(seg, page, limit, body) == [seg |-> seg, page |-> page, limit |-> limit, body |-> body]
BodyReq(body) == Req(<<>>, <<>>, <<>>, body)
SegReq(seg) == Req(seg, <<>>, <<>>, EmptyBody)

\* What `last` holds: the handler, the request, req.user (<<>> when the
\* guard did not set it) and the response.
Answer(op, req, user, reply) ==
    [op |-> op, req |-> req, user |-> user, status |-> reply.status, body |-> reply.body]
NoAnswer == Answer("none", BodyReq(EmptyBody), <<>>, Error(0, "", ""))

IdleSlot ==
    [op |-> "idle", pc |-> "idle", req |-> BodyReq(EmptyBody), updateData |-> <<>>]
InFlight(op) == Cardinality({s \in Slots : slot[s].op = op})

\* A turn starts when the one before it has ended.
TurnFree == last = NoAnswer
\* A request is taken by the first free slot.
Free(s) == slot[s].op = "idle" /\ s = CHOOSE t \in Slots : slot[t].op = "idle"

\* With `serial` every request runs to completion before the next one
\* starts, and every request is sent.  Without it handlers interleave at
\* their awaits, and only the requests that reach an await or a write are
\* sent: one turned away before that changes nothing.
Sent(serial, reaches) == serial \/ reaches

Init ==
    /\ users = <<SeedAdmin>>
    /\ nextUserId = 2
    /\ tokens = {}
    /\ now = 0
    /\ slot = [s \in Slots |-> IdleSlot]
    /\ last = NoAnswer

EndTurn ==
    /\ last # NoAnswer
    /\ last' = NoAnswer
    /\ UNCHANGED <<users, nextUserId, tokens, now, slot>>

Tick ==
    /\ TurnFree
    /\ now < MaxTime
    /\ now' = now + 1
    /\ UNCHANGED <<users, nextUserId, tokens, slot, last>>

\* ------------------------------------------------------ POST /auth/login
Login ==
    \E body \in LoginBodies :
        /\ TurnFree
        /\ LET reply == IF validateLogin(body) THEN loginReply(body, users, now)
                         ELSE ValidationFailed
           IN  /\ last' = Answer("login", BodyReq(body), <<>>, reply)
               /\ tokens' = IF reply.status = 200 THEN tokens \cup {reply.body.token}
                             ELSE tokens
        /\ UNCHANGED <<users, nextUserId, now, slot>>

\* A faulty GET /auth/me: the route is registered without the guard, and
\* the handler takes the claims of any token ever issued.
GetProfileUnguarded ==
    \E p \in tokens :
        /\ TurnFree
        /\ last' = Answer("getProfile", BodyReq(EmptyBody), <<p>>, getProfile(p, users))
        /\ UNCHANGED <<users, nextUserId, tokens, now, slot>>

\* --------------------------------------------------------- GET /auth/me
GetProfile ==
    \E header \in Headers :
        /\ TurnFree
        /\ LET auth == authenticateToken(header, now)
               reply == IF auth.ok THEN getProfile(auth.user[1], users)
                        ELSE Unauthorized(auth)
           IN  last' = Answer("getProfile", BodyReq(EmptyBody), auth.user, reply)
        /\ UNCHANGED <<users, nextUserId, tokens, now, slot>>

\* ------------------------------------------- GET on the users router
UsersGet ==
    \E header \in Headers, seg \in Segments \cup {<<>>}, query \in Queries :
        /\ TurnFree
        /\ seg # <<>> => query = NoQuery
        /\ LET handler == Dispatch("GET", seg)
               auth == authenticateToken(header, now)
               reply ==
                   IF ~auth.ok THEN Unauthorized(auth)
                   ELSE CASE handler = "listUsers" ->
                               listUsers(auth.user[1], query.page, query.limit, users)
                          [] handler = "getUserById" ->
                               getUserById(auth.user[1], seg, users)
                          [] handler = "getUserStats" -> getStats(auth.user[1], users)
           IN  last' = Answer(handler, Req(seg, query.page, query.limit, EmptyBody),
                              auth.user, reply)
        /\ UNCHANGED <<users, nextUserId, tokens, now, slot>>

\* ------------------------------------------------- DELETE /users/:id
DeleteUser(serial) ==
    \E header \in Headers, seg \in Segments :
        /\ TurnFree
        /\ Dispatch("DELETE", seg) = "deleteUser"
        /\ LET auth == authenticateToken(header, now)
               reply == IF auth.ok THEN deleteUserReply(auth.user[1], seg, users)
                        ELSE Unauthorized(auth)
           IN  /\ Sent(serial, reply.status = 200)
               /\ last' = Answer("deleteUser", SegReq(seg), auth.user, reply)
               /\ users' = IF auth.ok THEN deleteUserStore(auth.user[1], seg, users)
                            ELSE users
        /\ UNCHANGED <<nextUserId, tokens, now, slot>>

\* What a handler does from one await to the next: it answers a conflict,
\* waits at an await (pc) with the updateData gathered so far, or makes its
\* write (User.create, User.updateById).
Conflict(field) == [kind |-> "conflict", field |-> field, pc |-> "", updateData |-> <<>>]
Yield(pc, data) == [kind |-> "yield", field |-> "", pc |-> pc, updateData |-> data]
Write(data) == [kind |-> "write", field |-> "", pc |-> "", updateData |-> data]

\* --------------------------------------------------- POST /auth/register
\* `await User.findByEmail(email)` and the test of what it found
RegisterEmail(st, us) ==
    IF findByEmail(us, st.req.body.email) # <<>> THEN Conflict("email")
    ELSE Yield("findByUsername", <<>>)

\* `await User.findByUsername(username)`, its test, and bcrypt.hash started
RegisterUsername(st, us) ==
    IF findByUsername(us, st.req.body.username) # <<>> THEN Conflict("username")
    ELSE Yield("hash", <<>>)

\* bcrypt.hash resolved: the userData handed to User.create
RegisterHashed(st, salt) ==
    Write([username |-> st.req.body.username, email |-> st.req.body.email,
           password |-> Hash(st.req.body.password, salt)])

\* The handler run from outcome `out` to its answer with no other handler
\* in between: the store it reads stays `us`.
RECURSIVE RegisterRun(_, _, _, _)
RegisterRun(out, st, us, salt) ==
    IF out.kind # "yield" THEN out
    ELSE IF out.pc = "findByUsername"
    THEN RegisterRun(RegisterUsername(st, us), st, us, salt)
    ELSE RegisterHashed(st, salt)

registerConflict(field) ==
    IF field = "email"
    THEN Error(400, "User already exists", "A user with this email already exists")
    ELSE Error(400, "User already exists", "A user with this username already exists")

registerCreated(newUser, token) ==
    Reply(201, [message |-> "User registered successfully", token |-> token,
                user |-> WithoutPassword(newUser)])

\* The step of slot s whose handler state is st and whose outcome is out.
RegisterStep(s, st, out) ==
    /\ CASE out.kind = "conflict" ->
              /\ last' = Answer("register", st.req, <<>>, registerConflict(out.field))
              /\ slot' = [slot EXCEPT ![s] = IdleSlot]
              /\ UNCHANGED <<users, nextUserId, tokens>>
         [] out.kind = "yield" ->
              /\ last' = NoAnswer
              /\ slot' = [slot EXCEPT ![s] = [st EXCEPT !.pc = out.pc]]
              /\ UNCHANGED <<users, nextUserId, tokens>>
         [] out.kind = "write" ->
              LET newUser == create(out.updateData, nextUserId, now)
                  token == Sign(newUser, now)
              IN  /\ users' = Append(users, newUser)
                  /\ nextUserId' = PostIncrement(nextUserId)
                  /\ tokens' = tokens \cup {token}
                  /\ last' = Answer("register", st.req, <<>>,
                                    registerCreated(newUser, token))
                  /\ slot' = [slot EXCEPT ![s] = IdleSlot]
    /\ now' = now

\* validateRegister, handleValidation, and the handler up to its first await
Register(serial, s) ==
    \E body \in RegisterBodies, salt \in Salts :
        /\ TurnFree
        /\ Free(s)
        /\ nextUserId + InFlight("register") <= MaxId
        /\ Sent(serial, validateRegister(body))
        /\ LET st == [IdleSlot EXCEPT !.op = "register", !.req = BodyReq(body)]
               first == RegisterEmail(st, users)
           IN  IF ~validateRegister(body)
               THEN /\ last' = Answer("register", st.req, <<>>, ValidationFailed)
                    /\ UNCHANGED <<users, nextUserId, tokens, now, slot>>
               ELSE RegisterStep(s, st, IF serial THEN RegisterRun(first, st, users, salt)
                                        ELSE first)

\* after `await User.findByEmail(email)`
RegisterFindByUsername(s) ==
    /\ TurnFree
    /\ slot[s].op = "register" /\ slot[s].pc = "findByUsername"
    /\ RegisterStep(s, slot[s], RegisterUsername(slot[s], users))

\* bcrypt.hash resolves; `await User.create(...)`, jwt.sign and the 201
RegisterCreate(s) ==
    /\ TurnFree
    /\ slot[s].op = "register" /\ slot[s].pc = "hash"
    /\ \E salt \in Salts : RegisterStep(s, slot[s], RegisterHashed(slot[s], salt))

\* ---------------------------------------------------- PUT /users/:id
\* `if (password) { updateData.password = await bcrypt.hash(...) }`
StagePassword(st) ==
    IF Truthy(st.req.body.password) THEN Yield("hash", st.updateData)
    ELSE Write(st.updateData)

\* A faulty conflict test: a value held by another record is accepted.
TakenByNobody(existing, id) == FALSE

\* `existingUser && existingUser.id !== parseInt(id)`
TakenByOther(existing, id) ==
    existing # <<>> /\ StrictNeq(Num(existing[1].id), ParseInt(id))

\* `if (email) { ... await User.findByEmail(email) ... }`
StageEmail(st, us) ==
    IF Truthy(st.req.body.email)
    THEN IF TakenByOther(findByEmail(us, st.req.body.email), st.req.seg)
         THEN Conflict("email")
         ELSE Yield("findByEmail", Spread(st.updateData, [email |-> st.req.body.email]))
    ELSE StagePassword(st)

\* `if (username) { ... await User.findByUsername(username) ... }`
StageUsername(st, us) ==
    IF Truthy(st.req.body.username)
    THEN IF TakenByOther(findByUsername(us, st.req.body.username), st.req.seg)
         THEN Conflict("username")
         ELSE Yield("findByUsername",
                    Spread(st.updateData, [username |-> st.req.body.username]))
    ELSE StageEmail(st, us)

\* bcrypt.hash resolved
StageHashed(st, salt) ==
    Write(Spread(st.updateData, [password |-> Hash(st.req.body.password, salt)]))

\* The handler run from outcome `out` to its answer with no other handler
\* in between: the store it reads stays `us`.
RECURSIVE UpdateRun(_, _, _, _)
UpdateRun(out, st, us, salt) ==
    IF out.kind # "yield" THEN out
    ELSE LET at == [st EXCEPT !.pc = out.pc, !.updateData = out.updateData]
         IN  CASE out.pc = "findByUsername" -> UpdateRun(StageEmail(at, us), at, us, salt)
               [] out.pc = "findByEmail" -> UpdateRun(StagePassword(at), at, us, salt)
               [] out.pc = "hash" -> StageHashed(at, salt)

updateConflict(field) ==
    IF field = "username"
    THEN Error(400, "Username already exists", "A user with this username already exists")
    ELSE Error(400, "Email already exists", "A user with this email already exists")

\* `User.updateById(id, updateData)` and the answer made of what it returns
updateReply(id, data, us, t) ==
    IF updateIndex(us, id) = 0
    THEN Error(404, "User not found", "User with the specified ID does not exist")
    ELSE Reply(200, [message |-> "User updated successfully",
                     user |-> WithoutPassword(updateById(us, id, data, t)[updateIndex(us, id)])])

\* The step of slot s whose handler state is st and whose outcome is out.
UpdateStep(s, st, user, out) ==
    /\ CASE out.kind = "conflict" ->
              /\ last' = Answer("updateUser", st.req, user, updateConflict(out.field))
              /\ slot' = [slot EXCEPT ![s] = IdleSlot]
              /\ users' = users
         [] out.kind = "yield" ->
              /\ last' = NoAnswer
              /\ slot' = [slot EXCEPT ![s] = [st EXCEPT !.pc = out.pc,
                                                        !.updateData = out.updateData]]
              /\ users' = users
         [] out.kind = "write" ->
              /\ last' = Answer("updateUser", st.req, user,
                                updateReply(st.req.seg, out.updateData, users, now))
              /\ slot' = [slot EXCEPT ![s] = IdleSlot]
              /\ users' = updateById(users, st.req.seg, out.updateData, now)
    /\ UNCHANGED <<nextUserId, tokens, now>>

\* authenticateToken, validateUserUpdate, handleValidation, the ownership
\* test, and the handler up to its first await
UpdateUser(serial, s) ==
    \E header \in Headers, seg \in Segments, salt \in Salts,
       body \in IF serial THEN UpdateBodies ELSE RaceUpdateBodies :
        /\ TurnFree
        /\ Free(s)
        /\ Dispatch("PUT", seg) = "updateUser"
        /\ LET auth == authenticateToken(header, now)
               req == Req(seg, <<>>, <<>>, body)
               st == [IdleSlot EXCEPT !.op = "updateUser", !.req = req]
               first == StageUsername(st, users)
               rejected(reply) ==
                   /\ last' = Answer("updateUser", req, auth.user, reply)
                   /\ UNCHANGED <<users, nextUserId, tokens, now, slot>>
           IN  IF ~auth.ok THEN serial /\ rejected(Unauthorized(auth))
               ELSE IF ~validateUserUpdate(body) THEN serial /\ rejected(ValidationFailed)
               ELSE IF NotAdminNorOwner(auth.user[1], seg)
               THEN serial /\ rejected(Error(403, "Forbidden",
                                             "You can only update your own profile"))
               ELSE UpdateStep(s, st, auth.user,
                               IF serial THEN UpdateRun(first, st, users, salt)
                               ELSE first)

\* after `await User.findByUsername(username)`
UpdateFindByUsername(s) ==
    /\ TurnFree
    /\ slot[s].op = "updateUser" /\ slot[s].pc = "findByUsername"
    /\ UpdateStep(s, slot[s], <<>>, StageEmail(slot[s], users))

\* after `await User.findByEmail(email)`
UpdateFindByEmail(s) ==
    /\ TurnFree
    /\ slot[s].op = "updateUser" /\ slot[s].pc = "findByEmail"
    /\ UpdateStep(s, slot[s], <<>>, StagePassword(slot[s]))

\* bcrypt.hash resolves
UpdateHash(s) ==
    /\ TurnFree
    /\ slot[s].op = "updateUser" /\ slot[s].pc = "hash"
    /\ \E salt \in Salts : UpdateStep(s, slot[s], <<>>, StageHashed(slot[s], salt))

\* ------------------------------------------------------- specifications
\* The whole API, one request at a time.
Next ==
    \/ Login
    \/ GetProfile
    \/ UsersGet
    \/ DeleteUser(TRUE)
    \/ \E s \in Slots : Register(TRUE, s)
    \/ \E s \in Slots : UpdateUser(TRUE, s)
    \/ EndTurn
Spec == Init /\ [][Next]_vars

\* The handlers that write the store, interleaved at their awaits, from the
\* state the admin's Login at time 0 leaves.
InitRace ==
    /\ users = <<SeedAdmin>>
    /\ nextUserId = 2
    /\ tokens = {Sign(SeedAdmin, 0)}
    /\ now = 0
    /\ slot = [s \in Slots |-> IdleSlot]
    /\ last = NoAnswer

NextRace ==
    \/ DeleteUser(FALSE)
    \/ \E s \in Slots : Register(FALSE, s)
    \/ \E s \in Slots : RegisterFindByUsername(s)
    \/ \E s \in Slots : RegisterCreate(s)
    \/ \E s \in Slots : UpdateUser(FALSE, s)
    \/ \E s \in Slots : UpdateFindByUsername(s)
    \/ \E s \in Slots : UpdateFindByEmail(s)
    \/ \E s \in Slots : UpdateHash(s)
    \/ EndTurn
SpecRace == InitRace /\ [][NextRace]_vars

\* The guarded routes while time passes, on the seeded store.
NextClock ==
    \/ Login
    \/ GetProfile
    \/ UsersGet
    \/ DeleteUser(TRUE)
    \/ \E s \in Slots : UpdateUser(TRUE, s)
    \/ Tick
    \/ EndTurn
SpecClock == Init /\ [][NextClock]_vars

\* ----------------------------------------------------------- properties
\* The request answered in this turn came through the guard as `role`.
AnsweredTo(op, role) ==
    last.op = op /\ last.user # <<>> /\ last.user[1].role = role

\* The id a request path names: parseInt of its segment.
TargetId == ParseInt(last.req.seg)
TargetExists == \E i \in DOMAIN users : ~TargetId.nan /\ users[i].id = TargetId.val

\* C1: when two Register requests carry the same email, then under every
\* interleaving of their steps only one of them is answered 201 and the
\* store holds one record for that email.  A record without updatedAt still
\* holds the email it was registered with, so a Register answered 201 must
\* find its own record to be the only such record with its email.
C1_OneRecordPerRegisteredEmail ==
    (last.op = "register" /\ last.status = 201) =>
        \A i \in DOMAIN users :
            (users[i].email = last.req.body.email /\ "updatedAt" \notin DOMAIN users[i])
                => users[i].id = last.body.user.id

\* C2: with one request served at a time, no two records of the store share
\* an email and no two share a username, whatever Register, UpdateUser and
\* DeleteUser requests were served.
C2_UniqueEmailAndUsername ==
    \A i, j \in DOMAIN users :
        i # j => users[i].email # users[j].email /\ users[i].username # users[j].username

\* An UpdateUser was turned away because another record holds the username,
\* in a store of three records.
C2_Witness ==
    /\ Len(users) = 3
    /\ last.op = "updateUser"
    /\ last.status = 400
    /\ last.body.error = "Username already exists"

\* The user views a response body carries.
ViewsOf(body) ==
    (IF "user" \in DOMAIN body THEN {body.user} ELSE {})
        \cup (IF "users" \in DOMAIN body THEN {body.users[i] : i \in DOMAIN body.users}
              ELSE {})
        \cup (IF "id" \in DOMAIN body THEN {body} ELSE {})

\* C3: no response body of Register, Login, GetProfile, GetUserById,
\* UpdateUser or ListUsers carries a password field, at its top level or in
\* a user view, also for a record whose password UpdateUser changed.
C3_NoPasswordInResponses ==
    last.op \in {"register", "login", "getProfile", "getUserById", "updateUser",
                 "listUsers"} =>
        /\ "password" \notin DOMAIN last.body
        /\ \A view \in ViewsOf(last.body) : "password" \notin DOMAIN view

\* ListUsers answered with the views of a store in which a record's
\* password was changed by UpdateUser.
C3_Witness ==
    /\ last.op = "listUsers"
    /\ last.status = 200
    /\ Len(last.body.users) >= 2
    /\ \E i \in DOMAIN users : users[i].password.plain = "NewPass456"

\* C4: in every store state, a Login with an email that has no record and a
\* Login with an existing email and a wrong password get the same response:
\* status 401 with the same error and message.
UnknownEmail(body) == findByEmail(users, body.email) = <<>>
WrongPassword(body) ==
    /\ findByEmail(users, body.email) # <<>>
    /\ ~Compare(body.password, findByEmail(users, body.email)[1].password)
C4_LoginFailuresAlike ==
    \A unknown \in {b \in LoginBodies : UnknownEmail(b)} :
        \A wrong \in {b \in LoginBodies : WrongPassword(b)} :
            /\ loginReply(unknown, users, now) = loginReply(wrong, users, now)
            /\ loginReply(wrong, users, now).status = 401

\* A Login with a registered user's email and a wrong password was answered
\* 401, while another email of LoginBodies has no record.
C4_Witness ==
    /\ last.op = "login"
    /\ last.status = 401
    /\ findByEmail(users, last.req.body.email) # <<>>
    /\ last.req.body.email # AdminEmail
    /\ \E b \in LoginBodies : findByEmail(users, b.email) = <<>>

\* The requester of the request answered in this turn is neither an admin
\* nor the owner of the id the path names.
Stranger ==
    /\ last.user # <<>>
    /\ last.user[1].role # "admin"
    /\ (TargetId.nan \/ last.user[1].userId # TargetId.val)

\* C5, as claimed: an UpdateUser whose verified requester is neither an
\* admin nor the owner of the target id is answered 403 for every patch
\* body, valid or invalid, and the store is left as it was.
C5_ForbiddenForEveryBody ==
    [][(last'.op = "updateUser" /\ Stranger')
           => (last'.status = 403 /\ users' = users)]_vars

\* C5, amended: such an UpdateUser leaves the store as it was; it is
\* answered 403 when its patch passes validateUserUpdate, and 400
\* "Validation failed" when it does not, since the route runs the
\* validation before the handler's ownership test.
C5_ForbiddenAfterValidation ==
    [][(last'.op = "updateUser" /\ Stranger')
           => /\ users' = users
              /\ last'.status = IF validateUserUpdate(last'.req.body) THEN 403 ELSE 400
              /\ ~validateUserUpdate(last'.req.body)
                     => last'.body = ValidationFailed.body]_vars

\* A user was answered 403 to a valid patch of another user's record.
C5_Witness ==
    /\ last.op = "updateUser"
    /\ Stranger
    /\ TargetExists
    /\ validateUserUpdate(last.req.body)
    /\ last.req.body.password = "NewPass456"
    /\ last.status = 403

\* C6: GetUserById gives a user's data only to an admin and to the owner of
\* the target id.  Every other authenticated requester is answered 403,
\* also when the target id has no record; an admin or owner is answered 404
\* exactly when the target id has no record, and the record's view otherwise.
C6_GetUserByIdRule ==
    (last.op = "getUserById" /\ last.user # <<>>) =>
        /\ Stranger => last.status = 403
        /\ ~Stranger => (last.status = 404 <=> ~TargetExists)
        /\ ~Stranger /\ TargetExists =>
               /\ last.status = 200
               /\ \E i \in DOMAIN users :
                      users[i].id = TargetId.val /\ last.body = WithoutPassword(users[i])
        /\ last.status = 200 => ~Stranger

\* A user asked for an id that has no record and is not their own: 403.
C6_Witness ==
    /\ AnsweredTo("getUserById", "user")
    /\ Stranger
    /\ ~TargetId.nan
    /\ ~TargetExists
    /\ last.status = 403

\* C7: DeleteUser removes a record only when the requester is an admin, the
\* target id is not the requester's own and the target exists, and then it
\* removes that record alone.  A non-admin is answered 403, an admin
\* naming their own id 400, an admin naming a missing id 404, and in these
\* cases the store is left as it was.
C7_DeleteUserRule ==
    [][(last'.op = "deleteUser" /\ last'.user # <<>>) =>
           LET admin == last'.user[1].role = "admin"
               self == ~TargetId'.nan /\ last'.user[1].userId = TargetId'.val
               exists == \E i \in DOMAIN users : ~TargetId'.nan /\ users[i].id = TargetId'.val
               kept == SelectSeq(users, LAMBDA u : TargetId'.nan \/ u.id # TargetId'.val)
           IN  /\ ~admin => last'.status = 403 /\ users' = users
               /\ admin /\ self => last'.status = 400 /\ users' = users
               /\ admin /\ ~self /\ ~exists => last'.status = 404 /\ users' = users
               /\ admin /\ ~self /\ exists => last'.status = 200 /\ users' = kept
               /\ users' # users => admin /\ ~self /\ exists]_vars

\* The admin named their own id, which has a record, and was answered 400
\* in a store that still holds it.
C7_Witness ==
    /\ AnsweredTo("deleteUser", "admin")
    /\ ~TargetId.nan /\ last.user[1].userId = TargetId.val
    /\ TargetExists
    /\ Len(users) >= 2
    /\ last.status = 400

\* The handlers of the users router that answer a GET.
GetHandlers == {"listUsers", "getUserById", "getUserStats"}

\* C8: a GET /users/stats that carries a valid admin token is answered 200
\* with totalUsers the number of records, adminUsers the number of records
\* of role admin and regularUsers the number of role user, with the routes
\* registered in the order of UserRoutes.
C8_StatsForAdmin ==
    (/\ last.op \in GetHandlers
     /\ last.req.seg = SegStats
     /\ last.user # <<>>
     /\ last.user[1].role = "admin")
        => /\ last.status = 200
           /\ last.body = [totalUsers |-> Len(users),
                           adminUsers |-> CountRole(users, "admin"),
                           regularUsers |-> CountRole(users, "user")]

\* C9: ListUsers gives user data only to an admin: every authenticated
\* requester of another role is answered 403 with no user record in the
\* body, for every page and limit value, and a 200 goes to an admin only.
C9_ListUsersAdminOnly ==
    (last.op = "listUsers" /\ last.user # <<>>) =>
        /\ last.user[1].role # "admin" =>
               /\ last.status = 403
               /\ ViewsOf(last.body) = {}
        /\ last.status = 200 => last.user[1].role = "admin"

\* A user asked for a page with page and limit values and was answered 403
\* while the store held other users' records.
C9_Witness ==
    /\ AnsweredTo("listUsers", "user")
    /\ last.req.page # <<>>
    /\ last.req.limit # <<>>
    /\ Len(users) >= 2
    /\ last.status = 403

\* The integer a query value carries; the default when the request has none.
Carried(query, default) == IF query = <<>> THEN default ELSE ParseInt(query).val

\* The records of `all` at positions skip .. skip + size - 1, counted from 0.
Window(all, skip, size) ==
    LET at == {k \in DOMAIN all : k - 1 >= skip /\ k - 1 < skip + size}
    IN  [j \in 1..Cardinality(at) |-> all[skip + j]]

\* C10: an admin's ListUsers with any integer page and pageSize the request
\* can carry returns exactly the views at positions
\* [(page-1)*pageSize, (page-1)*pageSize + pageSize) of the store, in store
\* order, with total the number of records; a page outside the records is
\* an empty list and not an error.
C10_PageIsTheWindow ==
    (/\ AnsweredTo("listUsers", "admin")
     /\ last.req.page = <<>> \/ ~ParseInt(last.req.page).nan
     /\ last.req.limit = <<>> \/ ~ParseInt(last.req.limit).nan)
        => LET page == Carried(last.req.page, DefaultPage)
               pageSize == Carried(last.req.limit, DefaultLimit)
           IN  /\ last.status = 200
               /\ last.body.users = Window(findAll(users), (page - 1) * pageSize, pageSize)
               /\ last.body.pagination.total = Len(users)

\* The ids of the records of a store.
Ids(us) == {us[i].id : i \in DOMAIN us}

\* C11: a Register whose email and username are both unused adds exactly
\* one record, of role user and with an id no record has, leaves every
\* record there was as it was, and is answered 201 with a token that
\* carries the new record's id, its username and role user; a Register
\* answered with a conflict adds no record and consumes no id.
C11_RegisterEffects ==
    [][last'.op = "register" =>
           LET body == last'.req.body
               unused == /\ \A i \in DOMAIN users : users[i].email # body.email
                         /\ \A i \in DOMAIN users : users[i].username # body.username
               new == users'[Len(users')]
           IN  /\ validateRegister(body) /\ unused => last'.status = 201
               /\ last'.status = 201 =>
                      /\ unused
                      /\ Len(users') = Len(users) + 1
                      /\ SubSeq(users', 1, Len(users)) = users
                      /\ new.role = "user"
                      /\ new.id \notin Ids(users)
                      /\ new.username = body.username /\ new.email = body.email
                      /\ last'.body.token.userId = new.id
                      /\ last'.body.token.username = new.username
                      /\ last'.body.token.role = "user"
                      /\ last'.body.user = WithoutPassword(new)
               /\ last'.status # 201 =>
                      /\ last'.status = 400
                      /\ users' = users
                      /\ nextUserId' = nextUserId]_vars

\* A Register was answered 201 and given id 3 after the record of id 2 had
\* been deleted.
C11_Witness ==
    /\ last.op = "register"
    /\ last.status = 201
    /\ Len(users) = 2
    /\ last.body.user.id = 3

\* C14: in every reachable state the records have pairwise distinct ids,
\* and each id a Register assigns is greater than every id assigned before
\* it, the ids of deleted records included: every id in the store is below
\* nextUserId, the id a Register assigns is nextUserId, and nextUserId
\* never decreases, also when Register and DeleteUser interleave.
C14_IdsDistinctAndIncreasing ==
    /\ [](/\ \A i, j \in DOMAIN users : i # j => users[i].id # users[j].id
          /\ \A i \in DOMAIN users : users[i].id < nextUserId)
    /\ [][/\ nextUserId' >= nextUserId
          /\ (last'.op = "register" /\ last'.status = 201) =>
                 /\ last'.body.user.id = nextUserId
                 /\ nextUserId' > nextUserId
                 /\ users'[Len(users')].id = nextUserId]_vars

\* A DeleteUser removed the record of id 2 while a Register that goes on to
\* be given id 3 was waiting for its hash.
C14_Witness ==
    /\ last.op = "deleteUser"
    /\ last.status = 200
    /\ nextUserId = 3
    /\ Len(users) = 1
    /\ \E s \in Slots : slot[s].op = "register" /\ slot[s].pc = "hash"

\* The fields a patch can carry, and the value a record holds for a field
\* of the patch `body` (a password is held hashed).
PatchFields == {"username", "email", "password"}
Holds(record, body, f) ==
    IF f = "password" THEN Compare(body.password, record.password)
    ELSE record[f] = body[f]

\* The frame of a successful UpdateUser step: in the target record only the
\* fields of the patch and updatedAt change, and no other record changes.
UpdateFrame ==
    LET body == last'.req.body
        i == CHOOSE k \in DOMAIN users : users[k].id = TargetId'.val
    IN  /\ TargetId'.nan = FALSE
        /\ \E k \in DOMAIN users : users[k].id = TargetId'.val
        /\ Len(users') = Len(users)
        /\ \A j \in DOMAIN users : j # i => users'[j] = users[j]
        /\ DOMAIN users'[i] = DOMAIN users[i] \cup {"updatedAt"}
        /\ \A f \in DOMAIN users[i] \ (PatchFields \cup {"updatedAt"}) :
               users'[i][f] = users[i][f]
        /\ \A f \in PatchFields :
               IF body[f] = undefined THEN users'[i][f] = users[i][f]
               ELSE Holds(users'[i], body, f)
        /\ last'.body.user = WithoutPassword(users'[i])

\* The UpdateUser answered in this step came from an admin or the owner of
\* the target id, with a patch that passes validation, for an id that has
\* no record.
UpdateOfMissing ==
    /\ last'.op = "updateUser"
    /\ last'.user # <<>>
    /\ ~Stranger'
    /\ validateUserUpdate(last'.req.body)
    /\ \A k \in DOMAIN users : TargetId'.nan \/ users[k].id # TargetId'.val

\* C15, as claimed: a successful UpdateUser changes in the target record
\* only the fields of the patch and updatedAt, and changes no other record;
\* an authorized UpdateUser on an id with no record is answered 404 and
\* changes nothing.
C15_FrameAndNotFound ==
    [][/\ (last'.op = "updateUser" /\ last'.status = 200) => UpdateFrame
       /\ UpdateOfMissing => (last'.status = 404 /\ users' = users)]_vars

\* C15, amended: the frame is as claimed; an authorized UpdateUser on an
\* id with no record changes nothing, and is answered 404 unless a record
\* holds the username or the email of the patch, in which case the
\* conflict test, which comes first, answers 400.
C15_FrameAndNotFoundUnlessConflict ==
    [][/\ (last'.op = "updateUser" /\ last'.status = 200) => UpdateFrame
       /\ UpdateOfMissing =>
              LET body == last'.req.body
                  held == \E k \in DOMAIN users :
                              \/ users[k].username = body.username
                              \/ users[k].email = body.email
              IN  /\ users' = users
                  /\ last'.status = IF held THEN 400 ELSE 404]_vars

\* The admin changed the email and the password of another user's record,
\* in a store of three records, with a patch that carries no username.
C15_Witness ==
    /\ AnsweredTo("updateUser", "admin")
    /\ last.status = 200
    /\ Len(users) = 3
    /\ last.req.body.username = undefined
    /\ last.req.body.password = "NewPass456"
    /\ last.user[1].userId # TargetId.val

\* C16: when an UpdateUser that sets a username or an email to v
\* interleaves with a Register or with an UpdateUser of another id that
\* claims the same v, only one of the two succeeds: an UpdateUser answered
\* 200 leaves no other record holding the username or the email it set, and
\* a Register answered 201 leaves no updated record holding its username or
\* its email.
C16_OneClaimantSucceeds ==
    [][/\ (last'.op = "updateUser" /\ last'.status = 200) =>
              \A k \in DOMAIN users' :
                  users'[k].id # TargetId'.val =>
                      /\ users'[k].username # last'.req.body.username
                      /\ users'[k].email # last'.req.body.email
       /\ (last'.op = "register" /\ last'.status = 201) =>
              \A k \in DOMAIN users' :
                  "updatedAt" \in DOMAIN users'[k] =>
                      /\ users'[k].username # last'.req.body.username
                      /\ users'[k].email # last'.req.body.email]_vars

\* The passwords a Login can supply, and those Login accepts for an email.
Passwords == {b.password : b \in LoginBodies}
Accepted(us, email) ==
    {p \in Passwords : loginReply([email |-> email, password |-> p], us, now).status = 200}

\* C17: a Login for an existing email is answered 200, with a token for
\* that record's id and role, exactly when its password is the one stored
\* last for the record.  After an UpdateUser answered 200 that carries a
\* password, Login accepts that password for the record and no other; after
\* one that carries none, Login accepts what it accepted before.
C17_LoginFollowsStoredPassword ==
    /\ []((last.op = "login" /\ findByEmail(users, last.req.body.email) # <<>>) =>
            LET record == findByEmail(users, last.req.body.email)[1]
            IN  /\ last.status = 200 <=> record.password.plain = last.req.body.password
                /\ last.status # 200 => last.status = 401
                /\ last.status = 200 =>
                       /\ last.body.token.userId = record.id
                       /\ last.body.token.role = record.role)
    /\ [][(last'.op = "updateUser" /\ last'.status = 200) =>
              LET i == CHOOSE k \in DOMAIN users : users[k].id = TargetId'.val
                  patch == last'.req.body.password
              IN  Accepted(users', users'[i].email) =
                      IF patch = undefined THEN Accepted(users, users[i].email)
                      ELSE {patch}]_vars

\* A Login with the password a record was registered with was answered 401
\* after an UpdateUser had changed the record's password.
C17_Witness ==
    /\ last.op = "login"
    /\ last.status = 401
    /\ last.req.body.password = "Secret123"
    /\ \E i \in DOMAIN users :
           /\ users[i].email = last.req.body.email
           /\ users[i].password.plain = "NewPass456"
           /\ users[i].id # 1

\* C18: once DeleteUser has removed user u, every GetProfile made with a
\* token issued to u is answered 404, and the token never resolves to the
\* record of another user: a GetProfile is answered 404 exactly when no
\* record has the token's userId and otherwise with the record of that id;
\* the userId of every token issued is below nextUserId, the least id a
\* later Register can assign; and an id of a token that has no record gets
\* no record in any later step.
C18_DeletedStaysNotFound ==
    /\ [](/\ \A p \in tokens : p.userId < nextUserId
          /\ (last.op = "getProfile" /\ last.user # <<>>) =>
                 /\ last.status = 404 <=> last.user[1].userId \notin Ids(users)
                 /\ last.status # 404 =>
                        /\ last.status = 200
                        /\ last.body.id = last.user[1].userId
                        /\ last.body \in {WithoutPassword(users[i]) : i \in DOMAIN users})
    /\ [][\A p \in tokens : p.userId \notin Ids(users) => p.userId \notin Ids(users')]_vars

\* A GetProfile with the token of the deleted user 2 was answered 404 after
\* a later Register had added the record of id 3.
C18_Witness ==
    /\ last.op = "getProfile"
    /\ last.status = 404
    /\ last.user # <<>>
    /\ last.user[1].userId = 2
    /\ Ids(users) = {1, 3}

\* C19: whatever Register, Login, UpdateUser and DeleteUser requests are
\* served, no record of role admin is created, no record changes its role
\* and the seeded admin is not deleted: the record of id 1 is in the store
\* with role admin, every other record has role user, and the counts of
\* User.getUserStats add up.
C19_OneAdmin ==
    /\ \E i \in DOMAIN users : users[i].id = 1
    /\ \A i \in DOMAIN users : users[i].role = IF users[i].id = 1 THEN "admin" ELSE "user"
    /\ getUserStats(users).adminUsers = 1
    /\ getUserStats(users).totalUsers =
           getUserStats(users).adminUsers + getUserStats(users).regularUsers

\* A DeleteUser removed the one registered user from a store in which an
\* UpdateUser had changed the admin's email.
C19_Witness ==
    /\ last.op = "deleteUser"
    /\ last.status = 200
    /\ nextUserId = 3
    /\ users[1].id = 1
    /\ users[1].email = "bob@x.com"

\* The handlers behind the guard.
Protected ==
    {"getProfile", "getUserById", "updateUser", "deleteUser", "listUsers", "getUserStats"}

\* The header that carries payload p signed with `key`.
Bearer(p, key) == <<[payload |-> p, key |-> key]>>
\* Payload p as it would be had it been issued with a time to live of 0.
ZeroTtl(p) == [p EXCEPT !.exp = p.iat]

\* C12: a protected operation runs only for a request that carries a token
\* this service issued whose expiry is later than the current time.  The
\* guard lets a header through exactly when it is such a token; it turns
\* away a token issued with a time to live of 0; and an answer of a
\* protected handler other than 401 was made for the claims of an issued,
\* unexpired token, while a request the guard turned away is answered 401.
C12_OnlyUnexpiredIssuedTokens ==
    /\ \A header \in Headers :
           authenticateToken(header, now).ok <=>
               /\ header # <<>>
               /\ header[1].key = JWT_SECRET
               /\ header[1].payload \in tokens
               /\ now < header[1].payload.exp
    /\ \A p \in tokens : ~authenticateToken(Bearer(ZeroTtl(p), JWT_SECRET), now).ok
    /\ last.op \in Protected =>
           /\ last.status # 401 =>
                  /\ last.user # <<>>
                  /\ last.user[1] \in tokens
                  /\ now < last.user[1].exp
           /\ last.user = <<>> => last.status = 401

\* A request to a protected handler was answered 401 "Token expired" at a
\* time when a token this service issued had reached its expiry.
C12_Witness ==
    /\ last.op \in Protected
    /\ last.status = 401
    /\ last.body.message = "Token expired"
    /\ \E p \in tokens : now >= p.exp

====
